---- MODULE Spec2Model ----
(***************************************************************************)
(* A model of persistence-kit: the in-memory repository (its entity map    *)
(* and unique-index maps), the index initialisation of the document-store  *)
(* and relational repositories under concurrent callers, the criteria      *)
(* filter, paging and sorting of list and list_by_fields on the three      *)
(* backends, and the relation population of the view repository.           *)
(*                                                                         *)
(* Seven specifications share the module:                                  *)
(*   Spec        the memory repository under add / update / delete / get   *)
(*   SpecInit    concurrent first calls on a MongoRepository and on a      *)
(*               SqlAlchemyRepository (one step per await point)           *)
(*   SpecFilter  list_by_fields on the three backends, the criteria and    *)
(*               the stored entities drawn from bounded sets               *)
(*   SpecList    list and list_by_fields with their offset, limit and sort *)
(*   SpecPopulate  the view repository's population of include paths       *)
(*   SpecReady   repeated index initialisation attempts on the cached      *)
(*               repositories                                              *)
(*   SpecIndex   get_by_index with declared and undeclared index names on  *)
(*               the three backends                                        *)
(***************************************************************************)
EXTENDS Integers, Sequences, FiniteSets, TLC

VARIABLES
    items,      \* MemoryRepository._items: a dict, kept in insertion order
    indexes,    \* MemoryRepository._indexes: index name -> (value -> id)
    result,     \* what the last repository call did, and the state it met
    pc,         \* SpecInit: each caller's position in its call
    target,     \* SpecInit: the repository each caller calls
    inited,     \* the _inited flag of the mongo and of the sql repository
    lock,       \* MongoRepository._init_lock: its holder, or NoCaller
    initRuns,   \* per repository, the init_indexes runs that completed
    criteria,   \* SpecFilter: the Criteria Set passed to list_by_fields
    out,        \* SpecFilter, SpecList: what list / list_by_fields returned
    opts,       \* SpecList: the call and its offset, limit, sort_by, sort_desc
    stores,     \* SpecPopulate: entity key -> the entities its repository holds
    include,    \* SpecPopulate: the include list of the call
    view,       \* SpecPopulate: what the view repository returned
    attempt     \* SpecReady: the last initialisation attempt and what it issued

vars == <<items, indexes, result, pc, target, inited, lock, initRuns, criteria, out, opts,
          stores, include, view, attempt>>

(***************************************************************************)
(* Bounds and value domains                                                *)
(***************************************************************************)
MaxId == 2          \* identities are 1..MaxId
MaxTotal == 0       \* Spec: an added or updated entity has `total` in 0..MaxTotal

None == -1          \* Python's None, as a field value or a criterion

Ids == 1..MaxId
Emails == {10, 11}  \* values of the uniquely indexed field
Totals == 0..MaxTotal
IndexNames == {"email"}

\* An entity: its identity, a uniquely indexed field and a plain field.
Entities == [id : Ids, email : Emails, total : Totals]

(***************************************************************************)
(* Python dict and list helpers                                            *)
(***************************************************************************)
EmptyDict == << >>

DictGet(d, k) == IF k \in DOMAIN d THEN d[k] ELSE None

DictPut(d, k, v) == [x \in (DOMAIN d) \cup {k} |-> IF x = k THEN v ELSE d[x]]

DictPop(d, k) == [x \in (DOMAIN d) \ {k} |-> d[x]]

\* The position of identity `eid` in the entity map, 0 when it is not a key.
PosOf(its, eid) ==
    IF \E i \in 1..Len(its) : its[i].id = eid
    THEN CHOOSE i \in 1..Len(its) : its[i].id = eid
    ELSE 0

\* self._items[eid] = entity: a present key keeps its place, a new one is appended.
ItemsPut(its, e) ==
    IF PosOf(its, e.id) = 0
    THEN Append(its, e)
    ELSE [its EXCEPT ![PosOf(its, e.id)] = e]

\* self._items.pop(eid, None)
ItemsPop(its, eid) ==
    LET p == PosOf(its, eid)
    IN IF p = 0 THEN its
       ELSE SubSeq(its, 1, p - 1) \o SubSeq(its, p + 1, Len(its))

StoredIds(its) == {its[i].id : i \in 1..Len(its)}

\* The extractor of a unique index (attrgetter of the indexed attribute).
Extract(name, e) == e.email

(***************************************************************************)
(* MemoryRepository                                                        *)
(***************************************************************************)
\* Every index gets indexes[name][ext(entity)] = eid.
IndexPut(idx, e) ==
    [name \in DOMAIN idx |-> DictPut(idx[name], Extract(name, e), e.id)]

\* add: stores the entity under its identity and indexes it; it checks nothing.
Memory_add(its, idx, e) ==
    [items |-> ItemsPut(its, e), indexes |-> IndexPut(idx, e), status |-> "ok"]

\* update: the same assignments as add.
Memory_update(its, idx, e) ==
    [items |-> ItemsPut(its, e), indexes |-> IndexPut(idx, e), status |-> "ok"]

\* delete with an unguarded pop: a missing identity raises KeyError.
Memory_delete_Strict(its, idx, eid) ==
    LET p == PosOf(its, eid)
    IN IF p = 0
       THEN [items |-> its, indexes |-> idx, status |-> "KeyError"]
       ELSE [items |-> ItemsPop(its, eid),
             indexes |-> [name \in DOMAIN idx |->
                            IF DictGet(idx[name], Extract(name, its[p])) = eid
                            THEN DictPop(idx[name], Extract(name, its[p]))
                            ELSE idx[name]],
             status |-> "ok"]

\* delete: pops the entity (None when absent, then nothing else happens) and
\* drops each index entry of its value that still points at this identity.
Memory_delete(its, idx, eid) ==
    LET p == PosOf(its, eid)
    IN IF p = 0
       THEN [items |-> its, indexes |-> idx, status |-> "ok"]
       ELSE [items |-> ItemsPop(its, eid),
             indexes |-> [name \in DOMAIN idx |->
                            IF DictGet(idx[name], Extract(name, its[p])) = eid
                            THEN DictPop(idx[name], Extract(name, its[p]))
                            ELSE idx[name]],
             status |-> "ok"]

\* get: the stored entity, or None.
Memory_get(its, eid) ==
    IF PosOf(its, eid) = 0 THEN None ELSE its[PosOf(its, eid)]

\* Another stored identity already has e's value for some unique index.
Collides(its, e) ==
    \E i \in 1..Len(its) :
        /\ its[i].id # e.id
        /\ \E name \in IndexNames : Extract(name, its[i]) = Extract(name, e)

NoResult ==
    [op |-> "none", id |-> 0, status |-> "ok", stored |-> FALSE,
     collision |-> FALSE, before |-> 0]

\* The record of a call: the operation, its identity, how it ended, and what
\* the store held when it was made.
CallRecord(op, eid, status, its, coll) ==
    [op |-> op, id |-> eid, status |-> status, stored |-> eid \in StoredIds(its),
     collision |-> coll, before |-> Len(its)]

(***************************************************************************)
(* Spec: the memory repository under its callers                           *)
(***************************************************************************)
NoCaller == 0
Backends == {"mongo", "sql"}
NoOut == [backend |-> "none", status |-> "ok", rows |-> << >>, calls |-> 0]

\* The variables a specification does not use keep their initial values.
IdleInit ==
    /\ pc = << >>
    /\ target = << >>
    /\ inited = [r \in Backends |-> FALSE]
    /\ lock = NoCaller
    /\ initRuns = [r \in Backends |-> 0]

NoOpts == [call |-> "none", offset |-> 0, limit |-> 0, sort_by |-> "none", sort_desc |-> FALSE]

NoView ==
    [call |-> "none", arg |-> 0, found |-> FALSE, reps |-> << >>, lookups |-> 0, depth |-> 0]

NoAttempt == [backend |-> "none", kind |-> "none", after |-> FALSE, creates |-> 0]

IdlePopulate ==
    /\ stores = << >>
    /\ include = << >>
    /\ view = NoView
    /\ attempt = NoAttempt

IdleFilter ==
    /\ criteria = << >>
    /\ out = NoOut
    /\ opts = NoOpts
    /\ IdlePopulate

\* MemoryRepository.__init__: no entity, one empty map per unique index.
Init ==
    /\ items = << >>
    /\ indexes = [name \in IndexNames |-> EmptyDict]
    /\ result = NoResult
    /\ IdleInit
    /\ IdleFilter

Add(e) ==
    LET r == Memory_add(items, indexes, e)
    IN /\ items' = r.items
       /\ indexes' = r.indexes
       /\ result' = CallRecord("add", e.id, r.status, items, Collides(items, e))
       /\ UNCHANGED <<pc, target, inited, lock, initRuns, criteria, out, opts, stores, include, view, attempt>>

Update(e) ==
    LET r == Memory_update(items, indexes, e)
    IN /\ items' = r.items
       /\ indexes' = r.indexes
       /\ result' = CallRecord("update", e.id, r.status, items, Collides(items, e))
       /\ UNCHANGED <<pc, target, inited, lock, initRuns, criteria, out, opts, stores, include, view, attempt>>

Delete(eid) ==
    LET r == Memory_delete(items, indexes, eid)
    IN /\ items' = r.items
       /\ indexes' = r.indexes
       /\ result' = CallRecord("delete", eid, r.status, items, FALSE)
       /\ UNCHANGED <<pc, target, inited, lock, initRuns, criteria, out, opts, stores, include, view, attempt>>

Get(eid) ==
    /\ result' = CallRecord("get", eid, "ok", items, FALSE)
    /\ UNCHANGED <<items, indexes, pc, target, inited, lock, initRuns, criteria, out, opts, stores, include, view, attempt>>

Next ==
    \/ \E e \in Entities : Add(e)
    \/ \E e \in Entities : Update(e)
    \/ \E eid \in Ids : Delete(eid)
    \/ \E eid \in Ids : Get(eid)

Spec == Init /\ [][Next]_vars

(***************************************************************************)
(* SpecInit: concurrent first calls on a fresh MongoRepository and a fresh *)
(* SqlAlchemyRepository.  A caller runs one data operation; every          *)
(* operation starts with `await self._ensure_indexes()` and then sends its *)
(* command.  An action is the code between two suspension points.          *)
(***************************************************************************)
NumCallers == 3
Callers == 1..NumCallers

InitInit ==
    /\ pc = [p \in Callers |-> "idle"]
    /\ target = [p \in Callers |-> "none"]
    /\ inited = [r \in Backends |-> FALSE]
    /\ lock = NoCaller
    /\ initRuns = [r \in Backends |-> 0]
    /\ items = << >>
    /\ indexes = [name \in IndexNames |-> EmptyDict]
    /\ result = NoResult
    /\ IdleFilter

\* MongoRepository._ensure_indexes up to its first suspension: the unlocked
\* test of _inited, then `async with self._init_lock` (which suspends only when
\* the lock is held), the second test, and the call of init_indexes.
Mongo_ensure_indexes(p) ==
    IF inited["mongo"]
    THEN [pc |-> "data", lock |-> lock]
    ELSE IF lock = NoCaller
         THEN [pc |-> "init", lock |-> p]
         ELSE [pc |-> "wait_lock", lock |-> lock]

MongoCall(p) ==
    /\ pc[p] = "idle"
    /\ target' = [target EXCEPT ![p] = "mongo"]
    /\ pc' = [pc EXCEPT ![p] = Mongo_ensure_indexes(p).pc]
    /\ lock' = Mongo_ensure_indexes(p).lock
    /\ UNCHANGED <<inited, initRuns, items, indexes, result, criteria, out, opts, stores, include, view, attempt>>

\* A waiter gets the lock: inside it, the second test of _inited.
MongoAcquire(p) ==
    /\ pc[p] = "wait_lock"
    /\ lock = NoCaller
    /\ IF inited["mongo"]
       THEN /\ pc' = [pc EXCEPT ![p] = "data"]
            /\ lock' = NoCaller
       ELSE /\ pc' = [pc EXCEPT ![p] = "init"]
            /\ lock' = p
    /\ UNCHANGED <<target, inited, initRuns, items, indexes, result, criteria, out, opts, stores, include, view, attempt>>

\* init_indexes returns: create_index ran for every unique field; then
\* _inited = True and the lock is released.
MongoInitDone(p) ==
    /\ pc[p] = "init"
    /\ target[p] = "mongo"
    /\ initRuns' = [initRuns EXCEPT !["mongo"] = @ + 1]
    /\ inited' = [inited EXCEPT !["mongo"] = TRUE]
    /\ lock' = IF lock = p THEN NoCaller ELSE lock
    /\ pc' = [pc EXCEPT ![p] = "data"]
    /\ UNCHANGED <<target, items, indexes, result, criteria, out, opts, stores, include, view, attempt>>

\* create_index raises: the lock is released, the flag stays False and the
\* failure reaches the caller.
MongoInitFail(p) ==
    /\ pc[p] = "init"
    /\ target[p] = "mongo"
    /\ lock' = IF lock = p THEN NoCaller ELSE lock
    /\ pc' = [pc EXCEPT ![p] = "failed"]
    /\ UNCHANGED <<target, inited, initRuns, items, indexes, result, criteria, out, opts, stores, include, view, attempt>>

\* _ensure_indexes that never runs init_indexes.
Sql_ensure_indexes_Skip(p) == "data"

\* SqlAlchemyRepository._ensure_indexes: `if not self._inited: await
\* self.init_indexes()`; init_indexes suspends at engine.begin().
Sql_ensure_indexes(p) ==
    IF inited["sql"] THEN "data" ELSE "init"

SqlCall(p) ==
    /\ pc[p] = "idle"
    /\ target' = [target EXCEPT ![p] = "sql"]
    /\ pc' = [pc EXCEPT ![p] = Sql_ensure_indexes(p)]
    /\ UNCHANGED <<inited, lock, initRuns, items, indexes, result, criteria, out, opts, stores, include, view, attempt>>

\* The transaction of init_indexes ran create_all, the column and index
\* creation and the foreign keys; then _inited = True.
SqlInitDone(p) ==
    /\ pc[p] = "init"
    /\ target[p] = "sql"
    /\ initRuns' = [initRuns EXCEPT !["sql"] = @ + 1]
    /\ inited' = [inited EXCEPT !["sql"] = TRUE]
    /\ pc' = [pc EXCEPT ![p] = "data"]
    /\ UNCHANGED <<target, lock, items, indexes, result, criteria, out, opts, stores, include, view, attempt>>

\* The transaction raises: _inited stays False.
SqlInitFail(p) ==
    /\ pc[p] = "init"
    /\ target[p] = "sql"
    /\ pc' = [pc EXCEPT ![p] = "failed"]
    /\ UNCHANGED <<target, inited, lock, initRuns, items, indexes, result, criteria, out, opts, stores, include, view, attempt>>

\* The data command of the operation goes to the backend.
SendData(p) ==
    /\ pc[p] = "data"
    /\ pc' = [pc EXCEPT ![p] = "done"]
    /\ UNCHANGED <<target, inited, lock, initRuns, items, indexes, result, criteria, out, opts, stores, include, view, attempt>>

NextInit ==
    \/ \E p \in Callers : MongoCall(p)
    \/ \E p \in Callers : MongoAcquire(p)
    \/ \E p \in Callers : MongoInitDone(p)
    \/ \E p \in Callers : MongoInitFail(p)
    \/ \E p \in Callers : SqlCall(p)
    \/ \E p \in Callers : SqlInitDone(p)
    \/ \E p \in Callers : SqlInitFail(p)
    \/ \E p \in Callers : SendData(p)

SpecInit == InitInit /\ [][NextInit]_vars

\* C2: on a fresh document-store or relational repository, concurrent first
\* calls run the index initialisation once in total: never twice, and once
\* before any caller's data command.
C2_InitExactlyOnce ==
    \A r \in Backends :
        /\ initRuns[r] <= 1
        /\ (\E p \in Callers : target[p] = r /\ pc[p] \in {"data", "done"}) => initRuns[r] = 1

(***************************************************************************)
(* Claims about the memory repository (checked under Spec)                 *)
(***************************************************************************)

\* C1: for every unique index, no two distinct stored identities have the
\* same indexed value.
C1_UniqueIndexInvariant ==
    \A i, j \in 1..Len(items) :
        items[i].id # items[j].id =>
            \A name \in IndexNames : Extract(name, items[i]) # Extract(name, items[j])

\* C3: an add whose entity takes an indexed value that another stored
\* identity holds ends in a constraint violation, not in success.
C3_AddCollisionRaises ==
    (result.op = "add" /\ result.collision) => result.status = "ConstraintViolation"

\* C4: an update of an identity that is not stored does not raise, leaves the
\* number of stored entities as it was, and get of that identity finds nothing.
C4_UpdateMissingIsNoOp ==
    (result.op = "update" /\ ~result.stored) =>
        /\ result.status = "ok"
        /\ Len(items) = result.before
        /\ Memory_get(items, result.id) = None

\* C5: in every reachable state and for every identity, stored or not, a
\* second delete leaves the entity map and the index maps exactly as the first
\* delete left them, and neither delete raises.
C5_DeleteIdempotent ==
    /\ \A eid \in Ids :
          LET once == Memory_delete(items, indexes, eid)
              twice == Memory_delete(once.items, once.indexes, eid)
          IN /\ once.status = "ok"
             /\ twice.status = "ok"
             /\ twice.items = once.items
             /\ twice.indexes = once.indexes
             /\ eid \notin StoredIds(once.items)
    /\ result.op = "delete" => result.status = "ok"

\* A delete of a stored identity has run, and it removed an index entry.
C5_Witness ==
    /\ result.op = "delete"
    /\ result.stored
    /\ Len(items) = result.before - 1
    /\ \E name \in IndexNames : DOMAIN indexes[name] # Emails

(***************************************************************************)
(* The criteria model.  A criterion value is a scalar (None included), a   *)
(* list, or a dict of range operators; a Criteria Set is a dict, kept in   *)
(* insertion order as a sequence of (field, cond) with distinct fields.    *)
(***************************************************************************)
Scalar(v) == [list |-> FALSE, v |-> v, vs |-> << >>]
List(vs) == [list |-> TRUE, v |-> 0, vs |-> vs]

Value(a) == [range |-> FALSE, arg |-> a, ops |-> << >>]
Range(ops) == [range |-> TRUE, arg |-> Scalar(None), ops |-> ops]

Elems(vs) == {vs[i] : i \in 1..Len(vs)}

\* filter_ops.is_multi_value / is_range_dict
is_multi_value(cond) == ~cond.range /\ cond.arg.list
is_range_dict(cond) == cond.range

SIMPLE_OPS == {"gte", "gt", "lte", "lt", "eq", "ne"}

\* What iter_range_ops says of one item: a `between` that is not a two-element
\* list, an `in` that is not a list and an unknown operator raise ValueError.
OpIsValid(o) ==
    CASE o.op = "between" -> o.arg.list /\ Len(o.arg.vs) = 2
      [] o.op = "in" -> o.arg.list
      [] o.op \in SIMPLE_OPS -> TRUE
      [] OTHER -> FALSE

\* iter_range_ops: an empty dict gives no item; else every item is checked
\* and the items are returned in the dict's order.
iter_range_ops(ops) ==
    IF \A i \in 1..Len(ops) : OpIsValid(ops[i])
    THEN [status |-> "ok", items |-> ops]
    ELSE [status |-> "ValueError", items |-> << >>]

\* The attributes of the entity type; every other field name is unknown.
Attrs == {"id", "email", "total"}

\* memory_repo._get_field_value: getattr(entity, field, None)
get_field_value(e, field) ==
    CASE field = "id" -> e.id
      [] field = "email" -> e.email
      [] field = "total" -> e.total
      [] OTHER -> None

\* One operator of a range dict against a value, as _match_value tests it.
OpHolds(val, o) ==
    CASE o.op = "between" -> ~(val = None \/ val < o.arg.vs[1] \/ val > o.arg.vs[2])
      [] o.op = "gte" -> ~(val = None \/ val < o.arg.v)
      [] o.op = "gt" -> ~(val = None \/ val <= o.arg.v)
      [] o.op = "lte" -> ~(val = None \/ val > o.arg.v)
      [] o.op = "lt" -> ~(val = None \/ val >= o.arg.v)
      [] o.op = "in" -> val \in Elems(o.arg.vs)
      [] o.op = "eq" -> val = o.arg.v
      [] o.op = "ne" -> val # o.arg.v
      [] OTHER -> TRUE

\* _match_value with gte and lte tested strictly.
match_value_Strict(val, cond) ==
    CASE ~cond.range /\ ~cond.arg.list -> [status |-> "ok", match |-> val = cond.arg.v]
      [] is_multi_value(cond) -> [status |-> "ok", match |-> val \in Elems(cond.arg.vs)]
      [] OTHER ->
          LET r == iter_range_ops(cond.ops)
          IN IF r.status # "ok" THEN [status |-> r.status, match |-> FALSE]
             ELSE [status |-> "ok",
                   match |-> /\ r.items # << >>
                             /\ \A i \in 1..Len(r.items) :
                                  IF r.items[i].op \in {"gte", "lte"}
                                  THEN OpHolds(val, [r.items[i] EXCEPT
                                          !.op = IF @ = "gte" THEN "gt" ELSE "lt"])
                                  ELSE OpHolds(val, r.items[i])]

\* memory_repo._match_value: None matches None; a list matches its members;
\* a range dict matches when it has an operator and every operator holds (it
\* raises what iter_range_ops raises); any other value matches by equality.
match_value(val, cond) ==
    CASE ~cond.range /\ ~cond.arg.list -> [status |-> "ok", match |-> val = cond.arg.v]
      [] is_multi_value(cond) -> [status |-> "ok", match |-> val \in Elems(cond.arg.vs)]
      [] OTHER ->
          LET r == iter_range_ops(cond.ops)
          IN IF r.status # "ok" THEN [status |-> r.status, match |-> FALSE]
             ELSE [status |-> "ok",
                   match |-> /\ r.items # << >>
                             /\ \A i \in 1..Len(r.items) : OpHolds(val, r.items[i])]

\* The vacuous-query test that opens list_by_fields on the three backends: no
\* criterion, an empty list, or a range dict whose `in` is the empty list.
IsVacuous(crit) ==
    \/ crit = << >>
    \/ \E i \in 1..Len(crit) :
          \/ is_multi_value(crit[i].cond) /\ crit[i].cond.arg.vs = << >>
          \/ /\ is_range_dict(crit[i].cond)
             /\ \E j \in 1..Len(crit[i].cond.ops) :
                   /\ crit[i].cond.ops[j].op = "in"
                   /\ crit[i].cond.ops[j].arg.list
                   /\ crit[i].cond.ops[j].arg.vs = << >>

\* The inner loop of MemoryRepository.list_by_fields over one entity: the
\* criteria in order, stopping at the first that does not match or raises.
RECURSIVE EntityVerdict(_, _, _)
EntityVerdict(e, crit, k) ==
    IF k > Len(crit) THEN "match"
    ELSE LET m == match_value(get_field_value(e, crit[k].field), crit[k].cond)
         IN IF m.status # "ok" THEN m.status
            ELSE IF ~m.match THEN "nomatch"
            ELSE EntityVerdict(e, crit, k + 1)

\* A stable sort: an insertion sort that moves an element only past the
\* elements it goes strictly before.
InsertSorted(sorted, e, desc) ==
    LET n == Len(sorted)
        Before(a, b) == IF desc THEN a.key > b.key ELSE a.key < b.key
        Past(k) == \A i \in (n - k + 1)..n : Before(e, sorted[i])
        k == CHOOSE x \in 0..n : Past(x) /\ (x = n \/ ~Past(x + 1))
    IN SubSeq(sorted, 1, n - k) \o <<e>> \o SubSeq(sorted, n - k + 1, n)

\* Sorts seq by the parallel sequence of integer keys.
StableSort(seq, keys, desc) ==
    LET F[i \in 0..Len(seq)] ==
            IF i = 0 THEN << >>
            ELSE InsertSorted(F[i - 1], [key |-> keys[i], elem |-> seq[i]], desc)
    IN [i \in 1..Len(seq) |-> F[Len(seq)][i].elem]

\* list.sort(key=lambda e: _get_field_value(e, sort_by), reverse=sort_desc):
\* stable in both directions.
SortBy(seq, field, desc) ==
    StableSort(seq, [i \in 1..Len(seq) |-> get_field_value(seq[i], field)], desc)

\* Ordering None against anything raises TypeError as soon as two keys are compared.
SortRaises(seq, field) ==
    Len(seq) >= 2 /\ \E i \in 1..Len(seq) : get_field_value(seq[i], field) = None

Slice(seq, offset, limit) ==
    LET from == IF offset >= Len(seq) THEN << >> ELSE SubSeq(seq, offset + 1, Len(seq))
    IN IF limit = None \/ limit >= Len(from) THEN from ELSE SubSeq(from, 1, limit)

NoSort == "none"    \* sort_by=None

Returned(status, rows, calls) == [status |-> status, rows |-> rows, calls |-> calls]

\* MemoryRepository.list_by_fields.  It makes no backend call.
Memory_list_by_fields(its, crit, offset, limit, sort_by, sort_desc) ==
    IF IsVacuous(crit) THEN Returned("ok", << >>, 0)
    ELSE IF \E i \in 1..Len(its) : EntityVerdict(its[i], crit, 1) \notin {"match", "nomatch"}
    THEN Returned("ValueError", << >>, 0)
    ELSE LET Ok(e) == EntityVerdict(e, crit, 1) = "match"
             matched == SelectSeq(its, Ok)
         IN IF sort_by # NoSort /\ SortRaises(matched, sort_by)
            THEN Returned("TypeError", << >>, 0)
            ELSE Returned("ok",
                          Slice(IF sort_by # NoSort THEN SortBy(matched, sort_by, sort_desc)
                                ELSE matched, offset, limit),
                          0)

(***************************************************************************)
(* The document-store translator and the query it sends                    *)
(***************************************************************************)
\* DataclassMapper.has_attr and attr_to_storage (the mongo mapper stores the
\* identity under "_id", the relational one under "id").
has_attr(name) == name \in Attrs
Mongo_attr_to_storage(name) == IF name = "id" THEN "_id" ELSE name
Sql_attr_to_storage(name) == name

\* One item of a range dict written into the query dict: `between` writes
\* "$gte" and "$lte", every other operator its own key.  A key written twice
\* keeps the later value.
MongoPut(query, o) ==
    CASE o.op = "between" ->
            DictPut(DictPut(query, "$gte", Scalar(o.arg.vs[1])), "$lte", Scalar(o.arg.vs[2]))
      [] o.op = "gte" -> DictPut(query, "$gte", o.arg)
      [] o.op = "gt" -> DictPut(query, "$gt", o.arg)
      [] o.op = "lte" -> DictPut(query, "$lte", o.arg)
      [] o.op = "lt" -> DictPut(query, "$lt", o.arg)
      [] o.op = "in" -> DictPut(query, "$in", o.arg)
      [] o.op = "eq" -> DictPut(query, "$eq", o.arg)
      [] o.op = "ne" -> DictPut(query, "$ne", o.arg)
      [] OTHER -> query

\* mongo_repo._range_to_mongo
range_to_mongo(ops) ==
    LET r == iter_range_ops(ops)
        F[i \in 0..Len(r.items)] ==
            IF i = 0 THEN EmptyDict ELSE MongoPut(F[i - 1], r.items[i])
    IN [status |-> r.status, query |-> F[Len(r.items)]]

\* How the document store reads one comparison operator: an ordering
\* comparison never selects null, $ne selects everything but the value.
MongoOpHolds(val, key, arg) ==
    CASE key = "$gte" -> val # None /\ val >= arg.v
      [] key = "$gt" -> val # None /\ val > arg.v
      [] key = "$lte" -> val # None /\ val <= arg.v
      [] key = "$lt" -> val # None /\ val < arg.v
      [] key = "$in" -> val \in Elems(arg.vs)
      [] key = "$eq" -> val = arg.v
      [] key = "$ne" -> val # arg.v
      [] OTHER -> FALSE

\* An operator object selects the values that satisfy each of its keys.
MongoSelects(val, query) == \A key \in DOMAIN query : MongoOpHolds(val, key, query[key])

\* The stored document of an entity (to_document, plus the identity under
\* "_id"); a field the document lacks reads as null.
DocField(e, f) ==
    CASE f = "_id" -> e.id
      [] f = "email" -> e.email
      [] f = "total" -> e.total
      [] OTHER -> None

\* The query of _find_by_fields, built criterion by criterion: status "ok"
\* with the query, "empty" when a range dict has no operator (the function
\* returns []), or the ValueError of _range_to_mongo.
RECURSIVE MongoQuery(_, _, _)
MongoQuery(crit, k, query) ==
    IF k > Len(crit) THEN [status |-> "ok", query |-> query]
    ELSE LET f == Mongo_attr_to_storage(crit[k].field)
             c == crit[k].cond
         IN IF ~c.range /\ ~c.arg.list /\ c.arg.v = None
            THEN MongoQuery(crit, k + 1, DictPut(query, f, [lit |-> FALSE, v |-> 0, ops |-> ("$eq" :> Scalar(None))]))
            ELSE IF is_multi_value(c)
            THEN MongoQuery(crit, k + 1, DictPut(query, f, [lit |-> FALSE, v |-> 0, ops |-> ("$in" :> c.arg)]))
            ELSE IF is_range_dict(c)
            THEN LET m == range_to_mongo(c.ops)
                 IN IF m.status # "ok" THEN [status |-> m.status, query |-> EmptyDict]
                    ELSE IF m.query = EmptyDict THEN [status |-> "empty", query |-> EmptyDict]
                    ELSE MongoQuery(crit, k + 1, DictPut(query, f, [lit |-> FALSE, v |-> 0, ops |-> m.query]))
            ELSE MongoQuery(crit, k + 1, DictPut(query, f, [lit |-> TRUE, v |-> c.arg.v, ops |-> EmptyDict]))

\* col.find(query): the documents every field condition of the query selects.
MongoFind(docs, query) ==
    LET Sel(e) == \A f \in DOMAIN query :
                      IF query[f].lit THEN DocField(e, f) = query[f].v
                      ELSE MongoSelects(DocField(e, f), query[f].ops)
    IN SelectSeq(docs, Sel)

\* cursor.sort(field, direction): null sorts below every number.
MongoSort(docs, f, desc) ==
    StableSort(docs, [i \in 1..Len(docs) |-> DocField(docs[i], f)], desc)

\* cursor.to_list(length): at most `length` documents.
Cursor_to_list(docs, length) ==
    IF length >= Len(docs) THEN docs ELSE SubSeq(docs, 1, length)

\* mongo_repo._find_by_fields.  The cursor is lazy: to_list is the backend call.
find_by_fields(docs, crit, offset, limit, sort_by, sort_desc) ==
    IF IsVacuous(crit) THEN Returned("ok", << >>, 0)
    ELSE LET q == MongoQuery(crit, 1, EmptyDict)
         IN IF q.status = "empty" THEN Returned("ok", << >>, 0)
            ELSE IF q.status # "ok" THEN Returned(q.status, << >>, 0)
            ELSE IF sort_by # NoSort /\ ~has_attr(sort_by) THEN Returned("ValueError", << >>, 0)
            ELSE LET found == MongoFind(docs, q.query)
                     sorted == IF sort_by # NoSort
                               THEN MongoSort(found, Mongo_attr_to_storage(sort_by), sort_desc)
                               ELSE found
                     cursor == Slice(sorted, offset, limit)
                 IN Returned("ok", Cursor_to_list(cursor, IF limit = None THEN 0 ELSE limit), 1)

(***************************************************************************)
(* The relational translator and the statement it executes                 *)
(***************************************************************************)
\* The WHERE clauses of _select_by_fields for one criterion.
SqlClauses(col, c) ==
    IF ~c.range /\ ~c.arg.list /\ c.arg.v = None
    THEN [status |-> "ok", clauses |-> <<[col |-> col, op |-> "is_null", arg |-> Scalar(None)]>>]
    ELSE IF is_multi_value(c)
    THEN [status |-> "ok", clauses |-> <<[col |-> col, op |-> "in", arg |-> c.arg]>>]
    ELSE IF is_range_dict(c)
    THEN LET r == iter_range_ops(c.ops)
         IN IF r.status # "ok" THEN [status |-> r.status, clauses |-> << >>]
            ELSE IF r.items = << >> THEN [status |-> "empty", clauses |-> << >>]
            ELSE [status |-> "ok",
                  clauses |-> [i \in 1..Len(r.items) |->
                                 [col |-> col, op |-> r.items[i].op, arg |-> r.items[i].arg]]]
    ELSE [status |-> "ok", clauses |-> <<[col |-> col, op |-> "eq", arg |-> c.arg]>>]

\* The loop of _select_by_fields over the criteria, in order: an unknown
\* field raises ValueError, a malformed range dict raises ValueError, a range
\* dict without operator returns [].
RECURSIVE SqlWhere(_, _, _)
SqlWhere(crit, k, clauses) ==
    IF k > Len(crit) THEN [status |-> "ok", clauses |-> clauses]
    ELSE IF ~has_attr(crit[k].field) THEN [status |-> "ValueError", clauses |-> << >>]
    ELSE LET c == SqlClauses(Sql_attr_to_storage(crit[k].field), crit[k].cond)
         IN IF c.status # "ok" THEN c
            ELSE SqlWhere(crit, k + 1, clauses \o c.clauses)

\* A column predicate under SQL's three-valued logic: a comparison with NULL
\* is not true; `== None` and `!= None` are IS NULL and IS NOT NULL.
SqlClauseHolds(val, cl) ==
    CASE cl.op = "is_null" -> val = None
      [] cl.op = "in" -> val # None /\ val \in Elems(cl.arg.vs)
      [] cl.op = "between" -> val # None /\ val >= cl.arg.vs[1] /\ val <= cl.arg.vs[2]
      [] cl.op = "gte" -> val # None /\ val >= cl.arg.v
      [] cl.op = "gt" -> val # None /\ val > cl.arg.v
      [] cl.op = "lte" -> val # None /\ val <= cl.arg.v
      [] cl.op = "lt" -> val # None /\ val < cl.arg.v
      [] cl.op = "eq" -> IF cl.arg.v = None THEN val = None ELSE val # None /\ val = cl.arg.v
      [] cl.op = "ne" -> IF cl.arg.v = None THEN val # None ELSE val # None /\ val # cl.arg.v
      [] OTHER -> FALSE

\* select(table).where(and_(*clauses))
SqlSelect(rows, clauses) ==
    LET Sel(e) == \A i \in 1..Len(clauses) :
                      SqlClauseHolds(get_field_value(e, clauses[i].col), clauses[i])
    IN SelectSeq(rows, Sel)

\* ORDER BY col ASC | DESC: NULL sorts above every value.
SqlOrder(rows, col, desc) ==
    LET held == {get_field_value(rows[i], col) : i \in 1..Len(rows)} \cup {0}
        top == 1 + (CHOOSE m \in held : \A v \in held : v <= m)
        Rank(v) == IF v = None THEN top ELSE v
    IN StableSort(rows, [i \in 1..Len(rows) |-> Rank(get_field_value(rows[i], col))], desc)

\* sqlalchemy_repo._select_by_fields.  The statement is executed once.
select_by_fields(rows, crit, offset, limit, sort_by, sort_desc) ==
    IF IsVacuous(crit) THEN Returned("ok", << >>, 0)
    ELSE LET w == SqlWhere(crit, 1, << >>)
         IN IF w.status = "empty" THEN Returned("ok", << >>, 0)
            ELSE IF w.status # "ok" THEN Returned(w.status, << >>, 0)
            ELSE IF sort_by # NoSort /\ ~has_attr(sort_by) THEN Returned("ValueError", << >>, 0)
            ELSE LET sort_col == IF sort_by # NoSort THEN Sql_attr_to_storage(sort_by) ELSE "id"
                 IN Returned("ok",
                             Slice(SqlOrder(SqlSelect(rows, w.clauses), sort_col, sort_desc),
                                   offset, limit),
                             1)

(***************************************************************************)
(* SpecFilter: list_by_fields on the three repositories.  Init draws the   *)
(* Criteria Set and the stored entities; the same entities are the content *)
(* of the memory map, of the collection and of the table.  A behaviour is  *)
(* one call on one repository; the two backend repositories start freshly  *)
(* constructed.                                                            *)
(***************************************************************************)
MaxItems == 2           \* at most MaxItems stored entities
MaxVal == 1             \* a stored `total` is None or in 0..MaxVal, like the criteria's values
DEFAULT_LIMIT == 50     \* limit: Optional[int] = 50

Vals == 0..MaxVal
FieldVals == {None} \cup Vals

\* Stored entities: identities 1..n in insertion order, distinct emails.
Stores ==
    UNION {{[i \in 1..n |-> [id |-> i, email |-> 9 + i, total |-> t[i]]] :
              t \in [1..n -> FieldVals]} : n \in 0..MaxItems}

\* The items of a range dict: well-formed ones, and the malformed ones
\* (`between` without a two-element list, `in` without a list, an unknown key).
OpEntries ==
    {[op |-> o, arg |-> Scalar(v)] : o \in SIMPLE_OPS, v \in Vals}
    \cup {[op |-> o, arg |-> Scalar(None)] : o \in {"eq", "ne"}}
    \cup {[op |-> "between", arg |-> List(<<a, b>>)] : a \in Vals, b \in Vals}
    \cup {[op |-> "between", arg |-> List(<<a>>)] : a \in Vals}
    \cup {[op |-> "between", arg |-> Scalar(a)] : a \in Vals}
    \cup {[op |-> "in", arg |-> List(<< >>)]}
    \cup {[op |-> "in", arg |-> List(<<a>>)] : a \in Vals}
    \cup {[op |-> "in", arg |-> List(<<a, a + 1>>)] : a \in Vals}
    \cup {[op |-> "in", arg |-> Scalar(a)] : a \in Vals}
    \cup {[op |-> "regex", arg |-> Scalar(a)] : a \in Vals}

\* Range dicts of no, one or two operators (a dict has each key once).
Ranges1 == {Range(<< >>)} \cup {Range(<<a>>) : a \in OpEntries}
Ranges2 ==
    {Range(<<x[1], x[2]>>) : x \in {y \in OpEntries \X OpEntries : y[1].op # y[2].op}}

\* Scalars (None among them) and lists.
Values ==
    {Value(Scalar(v)) : v \in FieldVals}
    \cup {Value(List(<< >>))}
    \cup {Value(List(<<a>>)) : a \in Vals}
    \cup {Value(List(<<a, a + 1>>)) : a \in Vals}

\* A second criterion, on another field: a known one or an unknown one.
SideCriteria ==
    {[field |-> "email", cond |-> Value(Scalar(10))],
     [field |-> "email", cond |-> Value(List(<< >>))],
     [field |-> "bogus", cond |-> Value(Scalar(None))],
     [field |-> "bogus", cond |-> Value(Scalar(0))]}

OnTotal(c) == [field |-> "total", cond |-> c]

\* The Criteria Sets: the empty one, one criterion, and two criteria in
\* either order.
CriteriaSets ==
    {<< >>}
    \cup {<<OnTotal(c)>> : c \in Values \cup Ranges1 \cup Ranges2}
    \cup {<<sc>> : sc \in SideCriteria}
    \cup {<<OnTotal(c), sc>> : c \in Values \cup Ranges1, sc \in SideCriteria}
    \cup {<<sc, OnTotal(c)>> : c \in Values \cup Ranges1, sc \in SideCriteria}

\* The unique-index maps of a store.
IndexOf(its) ==
    [name \in IndexNames |->
        [v \in {Extract(name, its[i]) : i \in 1..Len(its)} |->
            (CHOOSE i \in 1..Len(its) : Extract(name, its[i]) = v)]]

FilterCaller == 1

InitFilter ==
    /\ criteria \in CriteriaSets
    /\ items \in Stores
    /\ indexes = IndexOf(items)
    /\ result = NoResult
    /\ out = NoOut
    /\ opts = NoOpts
    /\ IdlePopulate
    /\ IdleInit

Called(backend, r) ==
    [backend |-> backend, status |-> r.status, rows |-> r.rows, calls |-> r.calls]

\* MemoryRepository.list_by_fields(criteria), every option at its default.
MemoryListByFields ==
    /\ out = NoOut
    /\ out' = Called("memory",
                     Memory_list_by_fields(items, criteria, 0, DEFAULT_LIMIT, NoSort, FALSE))
    /\ UNCHANGED <<items, indexes, result, pc, target, inited, lock, initRuns, criteria, opts, stores, include, view, attempt>>

\* MongoRepository.list_by_fields(criteria): _ensure_indexes (on a fresh
\* repository one create_index call per unique field), then _find_by_fields.
MongoListByFields ==
    LET fresh == Mongo_ensure_indexes(FilterCaller).pc = "init"
        r == find_by_fields(items, criteria, 0, DEFAULT_LIMIT, NoSort, FALSE)
    IN /\ out = NoOut
       /\ inited' = [inited EXCEPT !["mongo"] = TRUE]
       /\ initRuns' = [initRuns EXCEPT !["mongo"] = IF fresh THEN @ + 1 ELSE @]
       /\ out' = Called("mongo", [r EXCEPT !.calls =
                                    IF fresh THEN @ + Cardinality(IndexNames) ELSE @])
       /\ UNCHANGED <<items, indexes, result, pc, target, lock, criteria, opts, stores, include, view, attempt>>

\* SqlAlchemyRepository.list_by_fields(criteria): _ensure_indexes (one DDL
\* transaction on a fresh repository), then _select_by_fields.
SqlListByFields ==
    LET fresh == Sql_ensure_indexes(FilterCaller) = "init"
        r == select_by_fields(items, criteria, 0, DEFAULT_LIMIT, NoSort, FALSE)
    IN /\ out = NoOut
       /\ inited' = [inited EXCEPT !["sql"] = TRUE]
       /\ initRuns' = [initRuns EXCEPT !["sql"] = IF fresh THEN @ + 1 ELSE @]
       /\ out' = Called("sql", [r EXCEPT !.calls = IF fresh THEN @ + 1 ELSE @])
       /\ UNCHANGED <<items, indexes, result, pc, target, lock, criteria, opts, stores, include, view, attempt>>

NextFilter ==
    \/ MemoryListByFields
    \/ MongoListByFields
    \/ SqlListByFields

SpecFilter == InitFilter /\ [][NextFilter]_vars

(***************************************************************************)
(* Claims about list_by_fields (checked under SpecFilter)                  *)
(***************************************************************************)
HasCalled == out.backend # "none"

\* C6: for a vacuous Criteria Set (empty, or holding an empty list or an
\* `in` of the empty list) list_by_fields returns the empty sequence and makes
\* no backend call, on each repository, fresh ones included.
C6_VacuousNoBackendCall ==
    (HasCalled /\ IsVacuous(criteria)) =>
        (out.status = "ok" /\ out.rows = << >> /\ out.calls = 0)

\* C7: a non-vacuous Criteria Set naming a field that is no attribute of the
\* entity type fails with a validation error, on each repository.
C7_UnknownFieldRejected ==
    (/\ HasCalled
     /\ ~IsVacuous(criteria)
     /\ \E i \in 1..Len(criteria) : criteria[i].field \notin Attrs) =>
        out.status = "ValueError"

Malformed(o) ==
    \/ o.op = "between" /\ ~(o.arg.list /\ Len(o.arg.vs) = 2)
    \/ o.op = "in" /\ ~o.arg.list
    \/ o.op \notin {"gte", "gt", "lte", "lt", "eq", "ne", "in", "between"}

\* C8: a malformed Range criterion makes list_by_fields raise a validation
\* error on every call, whatever is stored and whatever the other criteria are.
C8_MalformedRangeRaises ==
    (/\ HasCalled
     /\ \E i \in 1..Len(criteria) :
           /\ criteria[i].cond.range
           /\ \E j \in 1..Len(criteria[i].cond.ops) : Malformed(criteria[i].cond.ops[j])) =>
        out.status = "ValueError"

\* What the claims mean by a value satisfying one range operator.
Satisfies(val, o) ==
    CASE o.op = "gte" -> val # None /\ val >= o.arg.v
      [] o.op = "gt" -> val # None /\ val > o.arg.v
      [] o.op = "lte" -> val # None /\ val <= o.arg.v
      [] o.op = "lt" -> val # None /\ val < o.arg.v
      [] o.op = "between" -> val # None /\ o.arg.vs[1] <= val /\ val <= o.arg.vs[2]
      [] o.op = "in" -> \E k \in 1..Len(o.arg.vs) : o.arg.vs[k] = val
      [] o.op = "eq" -> val = o.arg.v
      [] o.op = "ne" -> ~(val = o.arg.v)
      [] OTHER -> FALSE

\* A value satisfies a criterion: equality (None for None), membership, or
\* every operator of the range.
SatisfiesCond(val, c) ==
    IF c.range THEN \A j \in 1..Len(c.ops) : Satisfies(val, c.ops[j])
    ELSE IF c.arg.list THEN \E k \in 1..Len(c.arg.vs) : c.arg.vs[k] = val
    ELSE val = c.arg.v

\* As SatisfiesCond, but a range of no operator is satisfied by no value.
SatisfiesCondNonEmpty(val, c) ==
    SatisfiesCond(val, c) /\ (c.range => c.ops # << >>)

ValidCriteria(crit) ==
    /\ ~IsVacuous(crit)
    /\ \A i \in 1..Len(crit) :
          crit[i].cond.range => \A j \in 1..Len(crit[i].cond.ops) : ~Malformed(crit[i].cond.ops[j])

\* The positions of the rows in the store (rows are stored entities, in order).
IsSubsequenceOf(rows, its) ==
    \E pos \in [1..Len(rows) -> 1..Len(its)] :
        /\ \A i \in 1..Len(rows) : rows[i] = its[pos[i]]
        /\ \A i, j \in 1..Len(rows) : i < j => pos[i] < pos[j]

\* C9 as stated: on the memory repository, a valid non-vacuous Criteria Set
\* selects exactly the stored entities that satisfy every criterion, a range
\* being satisfied when every operator of it is.
C9_MemorySelectsSatisfying ==
    (out.backend = "memory" /\ ValidCriteria(criteria)) =>
        /\ out.status = "ok"
        /\ IsSubsequenceOf(out.rows, items)
        /\ \A i \in 1..Len(items) :
              (\E k \in 1..Len(out.rows) : out.rows[k] = items[i])
              <=> \A c \in 1..Len(criteria) :
                      SatisfiesCond(get_field_value(items[i], criteria[c].field), criteria[c].cond)

\* C9 amended: the same, a range of no operator being satisfied by no value.
C9_MemorySelectsSatisfyingNonEmpty ==
    (out.backend = "memory" /\ ValidCriteria(criteria)) =>
        /\ out.status = "ok"
        /\ IsSubsequenceOf(out.rows, items)
        /\ \A i \in 1..Len(items) :
              (\E k \in 1..Len(out.rows) : out.rows[k] = items[i])
              <=> \A c \in 1..Len(criteria) :
                      SatisfiesCondNonEmpty(get_field_value(items[i], criteria[c].field),
                                            criteria[c].cond)

\* The spec's scenario at the model's scale: {gte: 1, lte: 1} over the totals
\* 0 and 1 selects the entity of total 1 alone.
C9_Witness ==
    /\ out.backend = "memory"
    /\ criteria = <<OnTotal(Range(<<[op |-> "gte", arg |-> Scalar(1)],
                                    [op |-> "lte", arg |-> Scalar(1)]>>))>>
    /\ Len(items) = 2
    /\ items[1].total = 0
    /\ items[2].total = 1
    /\ out.rows = <<items[2]>>

\* C10: for a valid range of at least one operator, the document-store query
\* and the relational WHERE clause select the stored entities whose value
\* satisfies every operator of the range (stores without None, where the
\* three stores compare alike).
C10_TranslatorsAgree ==
    (/\ out.backend \in {"mongo", "sql"}
     /\ Len(criteria) = 1
     /\ criteria[1].field = "total"
     /\ criteria[1].cond.range
     /\ criteria[1].cond.ops # << >>
     /\ ValidCriteria(criteria)
     /\ \A i \in 1..Len(items) : items[i].total # None) =>
        /\ out.status = "ok"
        /\ \A i \in 1..Len(items) :
              (\E k \in 1..Len(out.rows) : out.rows[k] = items[i])
              <=> (/\ match_value(items[i].total, criteria[1].cond).match
                   /\ \A j \in 1..Len(criteria[1].cond.ops) :
                         Satisfies(items[i].total, criteria[1].cond.ops[j]))

\* The operators C11 names: the ordering ones, between and ne.
OrderingOrNe == {"gte", "gt", "lte", "lt", "between", "ne"}

\* C11: on the memory repository a stored value of None matches no Range
\* criterion built from gte, gt, lte, lt, between or ne: no returned entity
\* has None in the field such a criterion is on.
C11_NoneMatchesNoRange ==
    (/\ out.backend = "memory"
     /\ out.status = "ok"
     /\ Len(criteria) = 1
     /\ criteria[1].field = "total"
     /\ criteria[1].cond.range
     /\ criteria[1].cond.ops # << >>
     /\ \A j \in 1..Len(criteria[1].cond.ops) : criteria[1].cond.ops[j].op \in OrderingOrNe) =>
        \A k \in 1..Len(out.rows) : out.rows[k].total # None

(***************************************************************************)
(* list, with its paging and sorting, on the three repositories            *)
(***************************************************************************)
\* MemoryRepository.list: the values in insertion order, sorted when sort_by
\* is given, then vals[offset: offset + limit] (offset + None raises).
Memory_list(its, offset, limit, sort_by, sort_desc) ==
    IF sort_by # NoSort /\ SortRaises(its, sort_by) THEN Returned("TypeError", << >>, 0)
    ELSE IF limit = None THEN Returned("TypeError", << >>, 0)
    ELSE Returned("ok",
                  Slice(IF sort_by # NoSort THEN SortBy(its, sort_by, sort_desc) ELSE its,
                        offset, limit),
                  0)

\* MongoRepository.list after _ensure_indexes: find({}), the sort when sort_by
\* is given, skip(offset).limit(limit) (the driver takes an integer limit,
\* and reads 0 as no limit), then to_list(length=limit).
Mongo_list(docs, offset, limit, sort_by, sort_desc) ==
    IF sort_by # NoSort /\ ~has_attr(sort_by) THEN Returned("ValueError", << >>, 0)
    ELSE IF limit = None THEN Returned("TypeError", << >>, 0)
    ELSE LET sorted == IF sort_by # NoSort
                       THEN MongoSort(docs, Mongo_attr_to_storage(sort_by), sort_desc)
                       ELSE docs
             cursor == Slice(sorted, offset, IF limit = 0 THEN None ELSE limit)
         IN Returned("ok", Cursor_to_list(cursor, limit), 1)

\* SqlAlchemyRepository.list after _ensure_indexes: ORDER BY the sort column
\* (the identity when sort_by is None), OFFSET, LIMIT (none for None).
Sql_list(rows, offset, limit, sort_by, sort_desc) ==
    IF sort_by # NoSort /\ ~has_attr(sort_by) THEN Returned("ValueError", << >>, 0)
    ELSE LET col_name == IF sort_by # NoSort THEN Sql_attr_to_storage(sort_by) ELSE "id"
         IN Returned("ok", Slice(SqlOrder(rows, col_name, sort_desc), offset, limit), 1)

(***************************************************************************)
(* SpecList: one call of list or of list_by_fields with its options, on    *)
(* one of the three repositories.  Init draws the stored entities, the     *)
(* options and, for list_by_fields, a Criteria Set every entity or every   *)
(* entity with a total matches.                                            *)
(***************************************************************************)
Offsets == 0..MaxItems
Limits == {None, DEFAULT_LIMIT} \cup (0..MaxItems)
SortFields == {NoSort, "id", "total", "bogus"}

OptSets ==
    [call : {"list", "list_by_fields"}, offset : Offsets, limit : Limits,
     sort_by : SortFields, sort_desc : BOOLEAN]

ListCriteria ==
    {<<[field |-> "email", cond |-> Range(<<[op |-> "gte", arg |-> Scalar(0)]>>)]>>,
     <<OnTotal(Range(<<[op |-> "gte", arg |-> Scalar(0)]>>))>>}

InitList ==
    /\ opts \in OptSets
    /\ criteria \in (IF opts.call = "list" THEN {<< >>} ELSE ListCriteria)
    /\ items \in Stores
    /\ indexes = IndexOf(items)
    /\ result = NoResult
    /\ out = NoOut
    /\ IdlePopulate
    /\ IdleInit

\* The _ensure_indexes of a fresh repository adds its commands to the call's.
WithInit(r, n) == [r EXCEPT !.calls = @ + n]

MemoryList ==
    /\ out = NoOut
    /\ opts.call = "list"
    /\ out' = Called("memory",
                     Memory_list(items, opts.offset, opts.limit, opts.sort_by, opts.sort_desc))
    /\ UNCHANGED <<items, indexes, result, pc, target, inited, lock, initRuns, criteria, opts, stores, include, view, attempt>>

MongoList ==
    LET fresh == Mongo_ensure_indexes(FilterCaller).pc = "init"
        r == Mongo_list(items, opts.offset, opts.limit, opts.sort_by, opts.sort_desc)
    IN /\ out = NoOut
       /\ opts.call = "list"
       /\ inited' = [inited EXCEPT !["mongo"] = TRUE]
       /\ initRuns' = [initRuns EXCEPT !["mongo"] = IF fresh THEN @ + 1 ELSE @]
       /\ out' = Called("mongo", WithInit(r, IF fresh THEN Cardinality(IndexNames) ELSE 0))
       /\ UNCHANGED <<items, indexes, result, pc, target, lock, criteria, opts, stores, include, view, attempt>>

SqlList ==
    LET fresh == Sql_ensure_indexes(FilterCaller) = "init"
        r == Sql_list(items, opts.offset, opts.limit, opts.sort_by, opts.sort_desc)
    IN /\ out = NoOut
       /\ opts.call = "list"
       /\ inited' = [inited EXCEPT !["sql"] = TRUE]
       /\ initRuns' = [initRuns EXCEPT !["sql"] = IF fresh THEN @ + 1 ELSE @]
       /\ out' = Called("sql", WithInit(r, IF fresh THEN 1 ELSE 0))
       /\ UNCHANGED <<items, indexes, result, pc, target, lock, criteria, opts, stores, include, view, attempt>>

MemoryListByFieldsPaged ==
    /\ out = NoOut
    /\ opts.call = "list_by_fields"
    /\ out' = Called("memory",
                     Memory_list_by_fields(items, criteria, opts.offset, opts.limit,
                                           opts.sort_by, opts.sort_desc))
    /\ UNCHANGED <<items, indexes, result, pc, target, inited, lock, initRuns, criteria, opts, stores, include, view, attempt>>

MongoListByFieldsPaged ==
    LET fresh == Mongo_ensure_indexes(FilterCaller).pc = "init"
        r == find_by_fields(items, criteria, opts.offset, opts.limit,
                            opts.sort_by, opts.sort_desc)
    IN /\ out = NoOut
       /\ opts.call = "list_by_fields"
       /\ inited' = [inited EXCEPT !["mongo"] = TRUE]
       /\ initRuns' = [initRuns EXCEPT !["mongo"] = IF fresh THEN @ + 1 ELSE @]
       /\ out' = Called("mongo", WithInit(r, IF fresh THEN Cardinality(IndexNames) ELSE 0))
       /\ UNCHANGED <<items, indexes, result, pc, target, lock, criteria, opts, stores, include, view, attempt>>

SqlListByFieldsPaged ==
    LET fresh == Sql_ensure_indexes(FilterCaller) = "init"
        r == select_by_fields(items, criteria, opts.offset, opts.limit,
                              opts.sort_by, opts.sort_desc)
    IN /\ out = NoOut
       /\ opts.call = "list_by_fields"
       /\ inited' = [inited EXCEPT !["sql"] = TRUE]
       /\ initRuns' = [initRuns EXCEPT !["sql"] = IF fresh THEN @ + 1 ELSE @]
       /\ out' = Called("sql", WithInit(r, IF fresh THEN 1 ELSE 0))
       /\ UNCHANGED <<items, indexes, result, pc, target, lock, criteria, opts, stores, include, view, attempt>>

NextList ==
    \/ MemoryList
    \/ MongoList
    \/ SqlList
    \/ MemoryListByFieldsPaged
    \/ MongoListByFieldsPaged
    \/ SqlListByFieldsPaged

SpecList == InitList /\ [][NextList]_vars

(***************************************************************************)
(* Claims about sorting and paging (checked under SpecList)                *)
(***************************************************************************)
Reverse(seq) == [i \in 1..Len(seq) |-> seq[Len(seq) + 1 - i]]

NonDecreasing(rows, f) ==
    \A i, j \in 1..Len(rows) :
        i < j => get_field_value(rows[i], f) <= get_field_value(rows[j], f)

\* C12: on the memory repository, for a valid sort field with a value in
\* every stored entity, list(sort_by=f) returns the entities in non-decreasing
\* order of f and list(sort_by=f, sort_desc=True) returns the exact reverse of
\* that sequence, ties included.
C12_SortDescIsExactReverse ==
    (/\ out.backend = "memory"
     /\ opts.call = "list"
     /\ opts.sort_by \in Attrs
     /\ ~opts.sort_desc
     /\ opts.offset = 0
     /\ opts.limit = DEFAULT_LIMIT
     /\ \A i \in 1..Len(items) : get_field_value(items[i], opts.sort_by) # None) =>
        /\ out.status = "ok"
        /\ NonDecreasing(out.rows, opts.sort_by)
        /\ Memory_list(items, 0, DEFAULT_LIMIT, opts.sort_by, TRUE)
               = Returned("ok", Reverse(out.rows), 0)

\* C13: on each repository, list and list_by_fields called with a sort_by
\* that is no attribute of the entity fail with an error.
C13_UnknownSortRejected ==
    (HasCalled /\ opts.call # "none" /\ opts.sort_by \notin Attrs \cup {NoSort}) =>
        out.status # "ok"

\* The call of SpecList on one repository with other options (the index
\* initialisation aside).
ListCall(backend, o) ==
    CASE backend = "memory" /\ o.call = "list" ->
           Memory_list(items, o.offset, o.limit, o.sort_by, o.sort_desc)
      [] backend = "mongo" /\ o.call = "list" ->
           Mongo_list(items, o.offset, o.limit, o.sort_by, o.sort_desc)
      [] backend = "sql" /\ o.call = "list" ->
           Sql_list(items, o.offset, o.limit, o.sort_by, o.sort_desc)
      [] backend = "memory" /\ o.call = "list_by_fields" ->
           Memory_list_by_fields(items, criteria, o.offset, o.limit, o.sort_by, o.sort_desc)
      [] backend = "mongo" /\ o.call = "list_by_fields" ->
           find_by_fields(items, criteria, o.offset, o.limit, o.sort_by, o.sort_desc)
      [] backend = "sql" /\ o.call = "list_by_fields" ->
           select_by_fields(items, criteria, o.offset, o.limit, o.sort_by, o.sort_desc)

\* The entities of seq from position offset on, at most limit of them, all
\* of them when limit is None.
Window(seq, offset, limit) ==
    LET rest == IF Len(seq) > offset THEN Len(seq) - offset ELSE 0
        n == IF limit = None \/ limit > rest THEN rest ELSE limit
    IN [i \in 1..n |-> seq[offset + i]]

\* C14: list, and list_by_fields over the matching entities, return the
\* window (offset, limit) of the ordered sequence - the sequence the same call
\* returns unpaged - and with limit None all of it from offset on, not raising.
C14_PageIsWindow ==
    (/\ HasCalled
     /\ opts.call # "none"
     /\ ListCall(out.backend, [opts EXCEPT !.offset = 0, !.limit = DEFAULT_LIMIT]).status = "ok") =>
        /\ out.status = "ok"
        /\ out.rows = Window(ListCall(out.backend,
                                      [opts EXCEPT !.offset = 0, !.limit = DEFAULT_LIMIT]).rows,
                             opts.offset, opts.limit)

(***************************************************************************)
(* PopulatingRepository: relation population over include paths            *)
(***************************************************************************)
MaxRefs == 3        \* a many-valued reference field holds at most MaxRefs references

\* The registry: a post refers to users (one by `ref`, several by `refs`), by
\* identity or through the unique index "code"; a user refers to a company
\* and a company to its owner, a user: the declarations form a cycle.
RELATIONS ==
    [post |->
        [author |-> [local_field |-> "ref", target |-> "user", by |-> "id", many |-> FALSE],
         editor |-> [local_field |-> "ref", target |-> "user", by |-> "code", many |-> FALSE],
         reviewers |-> [local_field |-> "refs", target |-> "user", by |-> "id", many |-> TRUE],
         watchers |-> [local_field |-> "refs", target |-> "user", by |-> "code", many |-> TRUE]],
     user |->
        [company |-> [local_field |-> "ref", target |-> "company", by |-> "id", many |-> FALSE]],
     company |->
        [owner |-> [local_field |-> "ref", target |-> "user", by |-> "id", many |-> FALSE]]]

EntityKeys == DOMAIN RELATIONS
RefIds == {1, 2}    \* the identities a reference can hold

\* An Optional[T]: the empty sequence for None, else the one value.
Nothing == << >>
Some(e) == <<e>>

\* The repository resolve_repo(target) returns: a memory repository whose
\* unique index "code" extracts the identity.
CodeIndex(its) == [code |-> [v \in StoredIds(its) |-> v]]
Repo(key) == [items |-> stores[key], indexes |-> CodeIndex(stores[key])]

\* MemoryRepository.get
Repo_get(repo, eid) ==
    IF PosOf(repo.items, eid) = 0 THEN Nothing ELSE Some(repo.items[PosOf(repo.items, eid)])

\* MemoryRepository.get_by_index: None for an unknown or empty index and for
\* a falsy identity under the value.
Repo_get_by_index(repo, index, value) ==
    LET idx == IF index \in DOMAIN repo.indexes THEN repo.indexes[index] ELSE EmptyDict
        eid == DictGet(idx, value)
    IN IF DOMAIN idx = {} THEN Nothing
       ELSE IF eid = None \/ eid = 0 THEN Nothing
       ELSE Repo_get(repo, eid)

\* _to_dict: the entity's own fields; the relation keys go under `rels`.
to_dict(x) == [id |-> x.id, ref |-> x.ref, refs |-> x.refs, rels |-> EmptyDict]

\* getattr(item, lf, None)
LocalField(item, lf) == IF lf = "ref" THEN item.ref ELSE item.refs

\* An empty list under the relation key, where null is due.
Null_EmptyList == [kind |-> "many", reps |-> << >>]

\* The list under the relation key, in the opposite order.
Many_Reversed(reps) == [kind |-> "many", reps |-> Reverse(reps)]

\* What a relation key holds: null, one representation, or a list of them.
Null == [kind |-> "null", reps |-> << >>]
One(rep) == [kind |-> "one", reps |-> <<rep>>]
Many(reps) == [kind |-> "many", reps |-> reps]

\* A root no relation declares gets a null key.
Ignored_Nulled == [set |-> TRUE, val |-> Null, lookups |-> 0, depth |-> 0]

\* `if not r: continue`: the root sets no key, makes no lookup and no call.
Ignored == [set |-> FALSE, val |-> Null, lookups |-> 0, depth |-> 0]

\* The distinct roots of the include list, each at its first occurrence.
\* An include path is its sequence of dot-separated segments: inc.split(".", 1)
\* gives the first segment and the rest.
RootsOf(inc) ==
    LET First(i) == \A j \in 1..(i - 1) : inc[j][1] # inc[i][1]
        F[i \in 0..Len(inc)] ==
            IF i = 0 THEN << >>
            ELSE IF First(i) THEN Append(F[i - 1], inc[i][1]) ELSE F[i - 1]
    IN F[Len(inc)]

\* No remainder reaches the child.
NestedOf_None(inc, f) == << >>

\* The remainders with the root put back at their end: no segment is consumed.
NestedOf_Rotated(inc, f) ==
    LET F[i \in 0..Len(inc)] ==
            IF i = 0 THEN << >>
            ELSE IF Len(inc[i]) >= 2 /\ inc[i][1] = f
            THEN Append(F[i - 1], Append(Tail(inc[i]), f))
            ELSE F[i - 1]
    IN F[Len(inc)]

\* nested.get(f, []): the remainders of the dotted paths of root f, in order.
NestedOf(inc, f) ==
    LET F[i \in 0..Len(inc)] ==
            IF i = 0 THEN << >>
            ELSE IF Len(inc[i]) >= 2 /\ inc[i][1] = f THEN Append(F[i - 1], Tail(inc[i]))
            ELSE F[i - 1]
    IN F[Len(inc)]

\* The element of a one-element set: The({e(x) : x \in {v}}) is e(v) with v
\* evaluated once.
The(S) == CHOOSE x \in S : TRUE

\* What a lookup, a loop or a call has gathered: representations, the
\* repository lookups made and the depth of _populate activations below.
Gathered(reps, lookups, depth) == [reps |-> reps, lookups |-> lookups, depth |-> depth]

Join(a, b) ==
    Gathered(a.reps \o b.reps, a.lookups + b.lookups,
             IF b.depth > a.depth THEN b.depth ELSE a.depth)

\* PopulatingRepository(key, ...)._populate(item, include): the
\* representation (a one-element sequence), the repository lookups made, and
\* the depth of the _populate activations (this one counted).
RECURSIVE populate(_, _, _)
populate(key, item, inc) ==
    LET rels == RELATIONS[key]
        roots == RootsOf(inc)
        \* one reference: the lookup, and the child's population when asked for
        Ref(r, v, child) ==
            The({IF ref = Nothing THEN Gathered(<< >>, 1, 0)
                 ELSE IF child # << >>
                 THEN [populate(r.target, ref[1], child) EXCEPT !.lookups = @ + 1]
                 ELSE Gathered(<<to_dict(ref[1])>>, 1, 0) :
                    ref \in {IF r.by = "id" THEN Repo_get(Repo(r.target), v)
                             ELSE Repo_get_by_index(Repo(r.target), r.by, v)}})
        \* the references of a many-valued field, in their order
        Refs(r, seq, child) ==
            LET Acc[i \in 0..Len(seq)] ==
                    IF i = 0 THEN Gathered(<< >>, 0, 0)
                    ELSE The({Join(prev, one) :
                                prev \in {Acc[i - 1]}, one \in {Ref(r, seq[i], child)}})
            IN Acc[Len(seq)]
        \* the loop body for root f: the relation key it sets, if any
        Root(f) ==
            IF f \notin DOMAIN rels THEN Ignored
            ELSE LET r == rels[f]
                     val == LocalField(item, r.local_field)
                     child == NestedOf(inc, f)
                 IN IF ~r.many /\ val = None
                    THEN [set |-> TRUE, val |-> Null, lookups |-> 0, depth |-> 0]
                    ELSE IF r.many
                    THEN The({[set |-> TRUE, val |-> Many(all.reps),
                               lookups |-> all.lookups, depth |-> all.depth] :
                                all \in {Refs(r, val, child)}})
                    ELSE The({[set |-> TRUE,
                               val |-> IF one.reps = << >> THEN Null ELSE One(one.reps[1]),
                               lookups |-> one.lookups, depth |-> one.depth] :
                                one \in {Ref(r, val, child)}})
        Loop[i \in 0..Len(roots)] ==
            IF i = 0 THEN [rels |-> EmptyDict, lookups |-> 0, depth |-> 0]
            ELSE The({[rels |-> IF done.set THEN DictPut(prev.rels, roots[i], done.val)
                                ELSE prev.rels,
                       lookups |-> prev.lookups + done.lookups,
                       depth |-> IF done.depth > prev.depth THEN done.depth ELSE prev.depth] :
                        prev \in {Loop[i - 1]}, done \in {Root(roots[i])}})
    IN The({Gathered(<<[to_dict(item) EXCEPT !.rels = end.rels]>>, end.lookups, 1 + end.depth) :
              end \in {Loop[Len(roots)]}})

(***************************************************************************)
(* SpecPopulate: one call on the view repository of "post".  Init draws    *)
(* what the three repositories hold and the include list.                  *)
(***************************************************************************)
RefSeqs == UNION {[1..n -> RefIds] : n \in 0..MaxRefs}

\* The post repository holds no post or the post 1.
PostStores ==
    {<< >>} \cup {<<[id |-> 1, ref |-> r, refs |-> rs]>> : r \in {None} \cup RefIds, rs \in RefSeqs}

\* The entities a choice per identity gives, in identity order: identity i
\* is absent, or stored with the reference ref[i].
Present(choice, ref) ==
    LET n == Cardinality(RefIds)
        F[i \in 0..n] ==
            IF i = 0 THEN << >>
            ELSE IF choice[i] = "absent" THEN F[i - 1]
            ELSE Append(F[i - 1], [id |-> i, ref |-> ref[i], refs |-> << >>])
    IN F[n]

\* Each user is absent, or refers to no company or to the company of its
\* own identity; each company is absent or owned by the user of its identity.
UserStores ==
    {Present(c, [i \in RefIds |-> IF c[i] = "none" THEN None ELSE i]) :
        c \in [RefIds -> {"absent", "none", "own"}]}
CompanyStores ==
    {Present(c, [i \in RefIds |-> i]) : c \in [RefIds -> {"absent", "own"}]}

\* Include lists: bare and dotted paths, paths sharing a root, paths that run
\* round the cycle of declarations, and roots and children no relation declares.
IncludeLists ==
    {<< >>,
     <<<<"author">>>>,
     <<<<"editor">>>>,
     <<<<"reviewers">>>>,
     <<<<"watchers">>>>,
     <<<<"bogus">>>>,
     <<<<"author", "company">>>>,
     <<<<"author", "company", "owner">>>>,
     <<<<"author", "company", "owner", "company">>>>,
     <<<<"reviewers", "company">>>>,
     <<<<"bogus", "company">>>>,
     <<<<"author">>, <<"bogus">>>>,
     <<<<"author">>, <<"author", "company">>>>,
     <<<<"author", "company">>, <<"author", "company", "owner">>>>,
     <<<<"author", "company">>, <<"reviewers">>, <<"author", "bogus">>>>}

InitPopulate ==
    /\ stores \in [post : PostStores, user : UserStores, company : CompanyStores]
    /\ include \in IncludeLists
    /\ view = NoView
    /\ attempt = NoAttempt
    /\ items = << >>
    /\ indexes = [name \in IndexNames |-> EmptyDict]
    /\ result = NoResult
    /\ criteria = << >>
    /\ out = NoOut
    /\ opts = NoOpts
    /\ IdleInit

\* The populated representations of the entities the inner call returned.
Viewed(call, arg, ents) ==
    LET Acc[i \in 0..Len(ents)] ==
            IF i = 0 THEN Gathered(<< >>, 0, 0)
            ELSE The({Join(prev, one) :
                        prev \in {Acc[i - 1]}, one \in {populate("post", ents[i], include)}})
    IN The({[call |-> call, arg |-> arg, found |-> ents # << >>,
             reps |-> end.reps, lookups |-> end.lookups, depth |-> end.depth] :
              end \in {Acc[Len(ents)]}})

\* get_with(entity_id, include): None when the entity is not stored.
GetWith(eid) ==
    /\ view = NoView
    /\ view' = Viewed("get_with", eid, Repo_get(Repo("post"), eid))
    /\ UNCHANGED <<items, indexes, result, pc, target, inited, lock, initRuns, criteria, out,
                   opts, stores, include, attempt>>

\* get_by_index_with(index, value, include)
GetByIndexWith(value) ==
    /\ view = NoView
    /\ view' = Viewed("get_by_index_with", value, Repo_get_by_index(Repo("post"), "code", value))
    /\ UNCHANGED <<items, indexes, result, pc, target, inited, lock, initRuns, criteria, out,
                   opts, stores, include, attempt>>

\* list_with(include=include), the other options at their defaults.
ListWith ==
    /\ view = NoView
    /\ view' = Viewed("list_with", 0,
                      Memory_list(stores["post"], 0, DEFAULT_LIMIT, NoSort, FALSE).rows)
    /\ UNCHANGED <<items, indexes, result, pc, target, inited, lock, initRuns, criteria, out,
                   opts, stores, include, attempt>>

NextPopulate ==
    \/ \E eid \in RefIds : GetWith(eid)
    \/ \E v \in RefIds : GetByIndexWith(v)
    \/ ListWith

SpecPopulate == InitPopulate /\ [][NextPopulate]_vars

(***************************************************************************)
(* Claims about population (checked under SpecPopulate)                    *)
(***************************************************************************)
\* The call returned a representation of the stored post.
Populated == view.call # "none" /\ view.found

IsRoot(f) == \E i \in 1..Len(include) : include[i][1] = f

\* The lookup the claims name: get when by is "id", else get_by_index.
Resolve(r, v) ==
    IF r.by = "id" THEN Repo_get(Repo(r.target), v)
    ELSE Repo_get_by_index(Repo(r.target), r.by, v)

OwnFields(rep, e) == rep.id = e.id /\ rep.ref = e.ref /\ rep.refs = e.refs

\* C15: for a many-valued relation of the include list, the list under the
\* relation name holds exactly the representations of the references that
\* resolve, in the order of the reference sequence; the others are dropped.
C15_ManyKeepsResolvedInOrder ==
    Populated =>
        \A f \in {"reviewers", "watchers"} :
            IsRoot(f) =>
                LET r == RELATIONS["post"][f]
                    Resolves(v) == Resolve(r, v) # Nothing
                    kept == SelectSeq(stores["post"][1].refs, Resolves)
                    got == view.reps[1].rels
                IN /\ f \in DOMAIN got
                   /\ got[f].kind = "many"
                   /\ Len(got[f].reps) = Len(kept)
                   /\ \A i \in 1..Len(kept) :
                         /\ OwnFields(got[f].reps[i], Resolve(r, kept[i])[1])
                         /\ NestedOf(include, f) = << >>
                               => got[f].reps[i] = to_dict(Resolve(r, kept[i])[1])

\* [1, 2, 1] with user 2 missing gives the list of user 1 twice.
C15_Witness ==
    /\ Populated
    /\ include = <<<<"reviewers">>>>
    /\ stores["post"][1].refs = <<1, 2, 1>>
    /\ StoredIds(stores["user"]) = {1}
    /\ Len(view.reps[1].rels["reviewers"].reps) = 2
    /\ view.reps[1].rels["reviewers"].reps[1].id = 1
    /\ view.reps[1].rels["reviewers"].reps[2].id = 1

MaxSegments(inc) ==
    LET F[i \in 0..Len(inc)] ==
            IF i = 0 THEN 0 ELSE IF Len(inc[i]) > F[i - 1] THEN Len(inc[i]) ELSE F[i - 1]
    IN F[Len(inc)]

\* The non-empty prefixes of the include paths.
Prefixes(inc) ==
    UNION {{SubSeq(inc[i], 1, n) : n \in 1..Len(inc[i])} : i \in 1..Len(inc)}

Chain(user, company) ==
    /\ stores["post"][1].ref = user
    /\ user \in StoredIds(stores["user"])
    /\ Repo_get(Repo("user"), user)[1].ref = company

\* C17: with include paths that all start at the single-valued relation
\* `author` and go on through `company` (a bare "author" among them or not),
\* author is resolved once, from the post's reference, company is resolved from
\* the author's reference in the company repository and nested under the
\* author's representation, and no path prefix is looked up twice.
C17_DottedPathNests ==
    (/\ Populated
     /\ include # << >>
     /\ \A i \in 1..Len(include) : include[i][1] = "author"
     /\ \E i \in 1..Len(include) : Len(include[i]) >= 2 /\ include[i][2] = "company"
     /\ \A i \in 1..Len(include) : Len(include[i]) >= 2 => include[i][2] = "company") =>
        LET post == stores["post"][1]
            got == view.reps[1].rels
        IN /\ DOMAIN got = {"author"}
           /\ view.lookups <= Cardinality(Prefixes(include))
           /\ post.ref # None /\ Repo_get(Repo("user"), post.ref) # Nothing =>
                 LET user == Repo_get(Repo("user"), post.ref)[1]
                     a == got["author"]
                 IN /\ a.kind = "one"
                    /\ OwnFields(a.reps[1], user)
                    /\ DOMAIN a.reps[1].rels = {"company"}
                    /\ user.ref # None /\ Repo_get(Repo("company"), user.ref) # Nothing =>
                          /\ a.reps[1].rels["company"].kind = "one"
                          /\ OwnFields(a.reps[1].rels["company"].reps[1],
                                       Repo_get(Repo("company"), user.ref)[1])
                          /\ view.lookups >= 2

\* ["author.company"] alone: the post's author 1 and the author's company 1
\* come nested, in two lookups.
C17_Witness ==
    /\ view.call = "get_with"
    /\ view.found
    /\ include = <<<<"author", "company">>>>
    /\ stores["post"][1].ref = 1
    /\ view.lookups = 2
    /\ view.reps[1].rels["author"].reps[1].id = 1
    /\ view.reps[1].rels["author"].reps[1].rels["company"].kind = "one"
    /\ view.reps[1].rels["author"].reps[1].rels["company"].reps[1].id = 1

\* The include paths whose root the entity declares.
DeclaredOnly(inc) ==
    LET Known(p) == p[1] \in DOMAIN RELATIONS["post"]
    IN SelectSeq(inc, Known)

\* C18: an include whose root is no declared relation of the entity is
\* ignored: no key is added for it, no lookup is made for it, and the output
\* is the output of the same call without that include.
C18_UnknownRelationIgnored ==
    (Populated /\ DeclaredOnly(include) # include) =>
        /\ DOMAIN view.reps[1].rels \subseteq DOMAIN RELATIONS["post"]
        /\ view.reps[1] = populate("post", stores["post"][1], DeclaredOnly(include)).reps[1]
        /\ view.lookups = populate("post", stores["post"][1], DeclaredOnly(include)).lookups

\* ["author", "bogus"]: the output has the key author and no other.
C18_Witness ==
    /\ Populated
    /\ include = <<<<"author">>, <<"bogus">>>>
    /\ stores["post"][1].ref # None
    /\ DOMAIN view.reps[1].rels = {"author"}
    /\ view.lookups = 1

\* C19: a population call ends with a _populate depth of at most the
\* largest number of segments of an include path (one activation for an empty
\* include list), whatever cycle the declarations and the references form.
C19_DepthBoundedBySegments ==
    view.call # "none" =>
        /\ view.depth <= (IF include = << >> THEN 1 ELSE MaxSegments(include))
        /\ view.found => view.depth >= 1

\* "author.company.owner.company" round the cycle user 1 -> company 1 ->
\* user 1 -> company 1: four activations, four lookups.
C19_Witness ==
    /\ Populated
    /\ include = <<<<"author", "company", "owner", "company">>>>
    /\ Chain(1, 1)
    /\ 1 \in StoredIds(stores["company"])
    /\ view.depth = 4
    /\ view.lookups = 4

(***************************************************************************)
(* SpecReady: initialisation attempts, one after the other, on the cached  *)
(* MongoRepository and SqlAlchemyRepository: direct init_indexes calls,    *)
(* the provide_repo and provide_view_repo dependencies, and data           *)
(* operations.  A backend object an earlier run created exists from then   *)
(* on.                                                                     *)
(***************************************************************************)
MaxAttempts == 3    \* init_indexes runs at most MaxAttempts times on a repository

\* MongoRepository.init_indexes: one create_index command per unique field,
\* whether the index exists or not.
Mongo_init_indexes(runs) == Cardinality(IndexNames)

\* SqlAlchemyRepository.init_indexes: create_all, the unique indexes' create
\* (both with checkfirst=True), ensure_missing_columns and ensure_foreign_keys
\* issue their DDL only for what an earlier run has not created.
Sql_init_indexes(runs) == IF runs = 0 THEN 1 + Cardinality(IndexNames) ELSE 0

Attempted(backend, kind, creates) ==
    [backend |-> backend, kind |-> kind, after |-> initRuns[backend] > 0, creates |-> creates]

InitReady ==
    /\ inited = [r \in Backends |-> FALSE]
    /\ initRuns = [r \in Backends |-> 0]
    /\ attempt = NoAttempt
    /\ lock = NoCaller
    /\ pc = << >>
    /\ target = << >>
    /\ items = << >>
    /\ indexes = [name \in IndexNames |-> EmptyDict]
    /\ result = NoResult
    /\ criteria = << >>
    /\ out = NoOut
    /\ opts = NoOpts
    /\ stores = << >>
    /\ include = << >>
    /\ view = NoView

\* await repo.init_indexes() on the MongoRepository: _inited is not touched.
MongoInitIndexes ==
    /\ initRuns["mongo"] < MaxAttempts
    /\ attempt' = Attempted("mongo", "init_indexes", Mongo_init_indexes(initRuns["mongo"]))
    /\ initRuns' = [initRuns EXCEPT !["mongo"] = @ + 1]
    /\ UNCHANGED <<inited, lock, pc, target, items, indexes, result, criteria, out, opts,
                   stores, include, view>>

\* provide_repo(key)(): get_repo returns the cached repository and
\* _ensure_ready awaits its init_indexes.
MongoProvideRepo ==
    /\ initRuns["mongo"] < MaxAttempts
    /\ attempt' = Attempted("mongo", "provide_repo", Mongo_init_indexes(initRuns["mongo"]))
    /\ initRuns' = [initRuns EXCEPT !["mongo"] = @ + 1]
    /\ UNCHANGED <<inited, lock, pc, target, items, indexes, result, criteria, out, opts,
                   stores, include, view>>

\* provide_view_repo(key)(): it awaits provide_repo(key)() and wraps the result.
MongoProvideViewRepo ==
    /\ initRuns["mongo"] < MaxAttempts
    /\ attempt' = Attempted("mongo", "provide_view_repo", Mongo_init_indexes(initRuns["mongo"]))
    /\ initRuns' = [initRuns EXCEPT !["mongo"] = @ + 1]
    /\ UNCHANGED <<inited, lock, pc, target, items, indexes, result, criteria, out, opts,
                   stores, include, view>>

\* A data operation on the MongoRepository: _ensure_indexes runs init_indexes
\* while _inited is False, and then sets it.
MongoDataOperation ==
    LET fresh == Mongo_ensure_indexes(FilterCaller).pc = "init"
    IN /\ fresh => initRuns["mongo"] < MaxAttempts
       /\ attempt' = Attempted("mongo", "data",
                               IF fresh THEN Mongo_init_indexes(initRuns["mongo"]) ELSE 0)
       /\ initRuns' = [initRuns EXCEPT !["mongo"] = IF fresh THEN @ + 1 ELSE @]
       /\ inited' = [inited EXCEPT !["mongo"] = TRUE]
       /\ UNCHANGED <<lock, pc, target, items, indexes, result, criteria, out, opts,
                      stores, include, view>>

\* await repo.init_indexes() on the SqlAlchemyRepository: it ends with
\* _inited = True.
SqlInitIndexes ==
    /\ initRuns["sql"] < MaxAttempts
    /\ attempt' = Attempted("sql", "init_indexes", Sql_init_indexes(initRuns["sql"]))
    /\ initRuns' = [initRuns EXCEPT !["sql"] = @ + 1]
    /\ inited' = [inited EXCEPT !["sql"] = TRUE]
    /\ UNCHANGED <<lock, pc, target, items, indexes, result, criteria, out, opts,
                   stores, include, view>>

SqlProvideRepo ==
    /\ initRuns["sql"] < MaxAttempts
    /\ attempt' = Attempted("sql", "provide_repo", Sql_init_indexes(initRuns["sql"]))
    /\ initRuns' = [initRuns EXCEPT !["sql"] = @ + 1]
    /\ inited' = [inited EXCEPT !["sql"] = TRUE]
    /\ UNCHANGED <<lock, pc, target, items, indexes, result, criteria, out, opts,
                   stores, include, view>>

SqlProvideViewRepo ==
    /\ initRuns["sql"] < MaxAttempts
    /\ attempt' = Attempted("sql", "provide_view_repo", Sql_init_indexes(initRuns["sql"]))
    /\ initRuns' = [initRuns EXCEPT !["sql"] = @ + 1]
    /\ inited' = [inited EXCEPT !["sql"] = TRUE]
    /\ UNCHANGED <<lock, pc, target, items, indexes, result, criteria, out, opts,
                   stores, include, view>>

\* A data operation on the SqlAlchemyRepository: _ensure_indexes runs
\* init_indexes while _inited is False.
SqlDataOperation ==
    LET fresh == Sql_ensure_indexes(FilterCaller) = "init"
    IN /\ fresh => initRuns["sql"] < MaxAttempts
       /\ attempt' = Attempted("sql", "data",
                               IF fresh THEN Sql_init_indexes(initRuns["sql"]) ELSE 0)
       /\ initRuns' = [initRuns EXCEPT !["sql"] = IF fresh THEN @ + 1 ELSE @]
       /\ inited' = [inited EXCEPT !["sql"] = TRUE]
       /\ UNCHANGED <<lock, pc, target, items, indexes, result, criteria, out, opts,
                      stores, include, view>>

NextReady ==
    \/ MongoInitIndexes
    \/ MongoProvideRepo
    \/ MongoProvideViewRepo
    \/ MongoDataOperation
    \/ SqlInitIndexes
    \/ SqlProvideRepo
    \/ SqlProvideViewRepo
    \/ SqlDataOperation

SpecReady == InitReady /\ [][NextReady]_vars

\* C20: once an index initialisation of a repository has completed, a later
\* attempt on it - init_indexes called directly, a provide_repo or
\* provide_view_repo dependency, the check that starts a data operation -
\* issues no index or table creation command.
C20_LaterInitIsNoOp ==
    attempt.after => attempt.creates = 0

(***************************************************************************)
(* SpecIndex: get_by_index calls, one after another, on a memory           *)
(* repository, a MongoRepository and a SqlAlchemyRepository that hold the  *)
(* same entities.  The two backend repositories start uninitialised; the   *)
(* lookup is kept in `criteria` as the criterion {field: value} the        *)
(* backends query with, and the outcome in `out`.                          *)
(***************************************************************************)
UndeclaredIndex == "bogus"
LookupIndexes == IndexNames \cup {UndeclaredIndex}
LookupValues == Emails

\* unique_fields() / unique_columns(): index name -> stored field name.
unique_fields == [name \in IndexNames |-> name]
unique_columns == [name \in IndexNames |-> name]

Lookup(index, value) == <<[field |-> index, cond |-> Value(Scalar(value))]>>

\* MemoryRepository.get_by_index: no backend, no command.
Memory_get_by_index(its, idx, index, value) ==
    Returned("ok", Repo_get_by_index([items |-> its, indexes |-> idx], index, value), 0)

\* MongoRepository.get_by_index after _ensure_indexes: None for a name
\* unique_fields() does not hold, else find_one({field: value}).
Mongo_get_by_index(docs, index, value) ==
    IF index \notin DOMAIN unique_fields
    THEN Returned("ok", Nothing, 0)
    ELSE LET hit == MongoFind(docs, unique_fields[index] :>
                                      [lit |-> TRUE, v |-> value, ops |-> EmptyDict])
         IN Returned("ok", IF hit = << >> THEN Nothing ELSE Some(Head(hit)), 1)

\* SqlAlchemyRepository.get_by_index after _ensure_indexes: None for a name
\* unique_columns() does not hold, else select ... where col == value limit 1.
Sql_get_by_index(rows, index, value) ==
    IF index \notin DOMAIN unique_columns
    THEN Returned("ok", Nothing, 0)
    ELSE LET hit == SelectSeq(rows, LAMBDA e : get_field_value(e, unique_columns[index]) = value)
         IN Returned("ok", IF hit = << >> THEN Nothing ELSE Some(Head(hit)), 1)

InitIndex ==
    /\ items \in Stores
    /\ indexes = IndexOf(items)
    /\ criteria = << >>
    /\ out = NoOut
    /\ result = NoResult
    /\ opts = NoOpts
    /\ IdlePopulate
    /\ IdleInit

MemoryGetByIndex(index, value) ==
    /\ criteria' = Lookup(index, value)
    /\ out' = Called("memory", Memory_get_by_index(items, indexes, index, value))
    /\ UNCHANGED <<items, indexes, result, pc, target, inited, lock, initRuns, opts, stores, include, view, attempt>>

\* MongoRepository.get_by_index: `await self._ensure_indexes()` comes first;
\* on a repository not yet initialised it runs init_indexes, one create_index
\* command per unique field, which either completes (ok) or raises.
MongoGetByIndex(index, value, ok) ==
    LET fresh == Mongo_ensure_indexes(FilterCaller).pc = "init"
    IN /\ criteria' = Lookup(index, value)
       /\ IF fresh /\ ~ok
          THEN /\ out' = Called("mongo", Returned("raised", Nothing, 1))
               /\ UNCHANGED <<inited, initRuns>>
          ELSE /\ inited' = [inited EXCEPT !["mongo"] = TRUE]
               /\ initRuns' = [initRuns EXCEPT !["mongo"] = IF fresh THEN @ + 1 ELSE @]
               /\ out' = Called("mongo", WithInit(Mongo_get_by_index(items, index, value),
                                                  IF fresh THEN Cardinality(IndexNames) ELSE 0))
       /\ UNCHANGED <<items, indexes, result, pc, target, lock, opts, stores, include, view, attempt>>

\* SqlAlchemyRepository.get_by_index: `await self._ensure_indexes()` comes
\* first; on a repository not yet initialised it runs the DDL transaction of
\* init_indexes, which either completes (ok) or raises.
SqlGetByIndex(index, value, ok) ==
    LET fresh == Sql_ensure_indexes(FilterCaller) = "init"
    IN /\ criteria' = Lookup(index, value)
       /\ IF fresh /\ ~ok
          THEN /\ out' = Called("sql", Returned("raised", Nothing, 1))
               /\ UNCHANGED <<inited, initRuns>>
          ELSE /\ inited' = [inited EXCEPT !["sql"] = TRUE]
               /\ initRuns' = [initRuns EXCEPT !["sql"] = IF fresh THEN @ + 1 ELSE @]
               /\ out' = Called("sql", WithInit(Sql_get_by_index(items, index, value),
                                                IF fresh THEN 1 ELSE 0))
       /\ UNCHANGED <<items, indexes, result, pc, target, lock, opts, stores, include, view, attempt>>

NextIndex ==
    \/ \E index \in LookupIndexes, value \in LookupValues : MemoryGetByIndex(index, value)
    \/ \E index \in LookupIndexes, value \in LookupValues, ok \in BOOLEAN :
           MongoGetByIndex(index, value, ok)
    \/ \E index \in LookupIndexes, value \in LookupValues, ok \in BOOLEAN :
           SqlGetByIndex(index, value, ok)

SpecIndex == InitIndex /\ [][NextIndex]_vars

\* C21: a get_by_index call with an index name the repository does not
\* declare returns None on each of the three repositories, in every state: it
\* does not raise, it sends no command to the backend, and it leaves the
\* stored entities, the index maps and the initialisation state as they were.
C21_UndeclaredIndexIsNone ==
    [][criteria'[1].field \notin IndexNames =>
          /\ out'.status = "ok"
          /\ out'.rows = Nothing
          /\ out'.calls = 0
          /\ UNCHANGED <<items, indexes, inited, initRuns>>]_vars

(***************************************************************************)
(* Index consistency of the memory repository (checked under Spec)         *)
(***************************************************************************)
IsStored(e) == \E i \in 1..Len(items) : items[i] = e

\* C22: in the memory repository, after any add, update and delete calls,
\* get_by_index(index, v) returns the entity e exactly when e is stored and
\* its indexed value is v - so no entry outlives an update that changes the
\* value - and every index entry points at a stored identity.
C22_IndexConsistent ==
    \A name \in IndexNames :
        /\ \A v \in Emails, e \in Entities :
               (Memory_get_by_index(items, indexes, name, v).rows = Some(e))
                   <=> (IsStored(e) /\ Extract(name, e) = v)
        /\ \A v \in DOMAIN indexes[name] : PosOf(items, indexes[name][v]) # 0

(***************************************************************************)
(* Initialisation before data (checked under SpecInit)                     *)
(***************************************************************************)
\* The caller's data command is about to go, or has gone, to the backend.
Sends(p) == pc[p] \in {"data", "done"}

\* What one step may do to caller p.
InitBeforeDataStep(p) ==
    \* a command is sent only from behind a completed initialisation
    /\ (pc[p] # "done" /\ pc'[p] = "done") =>
           (pc[p] = "data" /\ initRuns[target[p]] >= 1)
    \* a failed initialisation ends the call: no command follows
    /\ pc[p] = "failed" => pc'[p] = "failed"
    \* the failure leaves the repository as uninitialised as it was
    /\ (pc[p] = "init" /\ pc'[p] = "failed") => UNCHANGED <<inited, initRuns>>
    \* a call that finds the repository uninitialised goes for the initialisation
    /\ (pc[p] = "idle" /\ pc'[p] # "idle" /\ ~inited[target'[p]]) =>
           pc'[p] \in {"init", "wait_lock"}
    /\ (pc[p] = "wait_lock" /\ pc'[p] # "wait_lock" /\ ~inited[target[p]]) =>
           pc'[p] = "init"

\* C23: on the document-store and the relational repository, under every
\* interleaving of concurrent callers, no data operation sends its command
\* before an index initialisation of that repository has completed; when the
\* initialisation fails the caller gets the failure, its command is never
\* sent, and the repository is left uninitialised, so that a later call runs
\* the initialisation again.
C23_InitBeforeData ==
    /\ [](\A p \in Callers : Sends(p) => initRuns[target[p]] >= 1)
    /\ [](\A r \in Backends : inited[r] => initRuns[r] >= 1)
    /\ [][\A p \in Callers : InitBeforeDataStep(p)]_vars

\* A first call on the document-store repository failed in its
\* initialisation; a later call ran the initialisation again and sent its
\* command; a call on the relational repository sent its command too.
C23_Witness ==
    \E p, q, s \in Callers :
        /\ target[p] = "mongo" /\ pc[p] = "failed"
        /\ target[q] = "mongo" /\ pc[q] = "done" /\ initRuns["mongo"] = 1
        /\ target[s] = "sql" /\ pc[s] = "done"

====
